---- MODULE Spec2Model ----
(***************************************************************************)
(* Model of extractLightsVariance.cpp: the command line driver (main),     *)
(* the region partitioner (medianVarianceCut / splitRecursive) and the     *)
(* JSON writer (outputJSON).                                               *)
(*                                                                         *)
(* Four specifications share the same actions:                             *)
(*   Spec      the whole run of main, from the argument vector to exit;    *)
(*   SpecCut   medianVarianceCut alone, for every image size and budget;   *)
(*   FairCut   SpecCut with weak fairness (the recursion keeps running);   *)
(*   SpecJSON  outputJSON alone, for every light list and light count.     *)
(***************************************************************************)
EXTENDS Integers, Sequences, FiniteSets, TLC

\* ------------------------------------------------------------- bounds ----
\* largest image width and height
MaxDim == 6
\* largest depth budget (-n numCuts)
MaxDepth == 3
\* longest light list handed to outputJSON in SpecJSON
MaxLights == 3
\* largest -m lightsNum
MaxNum == 2
\* centroid rows are the fractions 0/VDen .. VDen/VDen of the image height
VDen == 2

\* ---------------------------------------------------- program constants --
\* int numCuts = 8;
DefaultNumCuts == 8
\* int numLights = 1;
DefaultNumLights == 1

VARIABLES
  argv,         \* the command line: [badOpt, file, n, m, d]
  numCuts,      \* main: int numCuts
  numLights,    \* main: int numLights / outputJSON: numLights
  debug,        \* main: bool debug
  pc,           \* position of the run
  exitCode,     \* process exit status, -1 while running
  loader,       \* which loader main invoked: "none", "exr", "hdr"
  loadRet,      \* return value of the loader, -1 before the call
  image,        \* Image width/height, [w |-> 0, h |-> 0] before load
  sat,          \* SummedAreaTable width()/height()
  stack,        \* pending splitRecursive calls, innermost first
  regions,      \* SatRegionVector regions
  leafLog,      \* for each pushed region: the n and depth of the call
  lastSplit,    \* the last split performed: <<[r, axis, A, B]>> or <<>>
  lights,       \* candidate lights (one per region)
  mainLights,   \* merged lights, each the row of its centroid (v*VDen)
  numLightsMax, \* outputJSON: size_t numLightsMax
  ji,           \* outputJSON: size_t i
  jl,           \* outputJSON: iterator l, as a 1-based index
  out,          \* tokens written to stdout by outputJSON
  ran           \* pipeline steps that have been executed

vars == <<argv, numCuts, numLights, debug, pc, exitCode, loader, loadRet,
          image, sat, stack, regions, leafLog, lastSplit, lights,
          mainLights, numLightsMax, ji, jl, out, ran>>

mainVars == <<argv, numCuts, numLights, debug, exitCode, loader, loadRet,
              image>>
cutVars == <<sat, stack, regions, leafLog, lastSplit>>
jsonVars == <<numLightsMax, ji, jl, out>>

\* ------------------------------------------------------------ helpers ----
RECURSIVE Pow2(_)
Pow2(k) == IF k = 0 THEN 1 ELSE 2 * Pow2(k - 1)

SeqsUpTo(S, k) == UNION {[1..m -> S] : m \in 0..k}

NoImage == [w |-> 0, h |-> 0]

\* ---------------------------------------------------------- loaders ------
\* Files the positional argument can name.
Files == {"exr", "hdr", "corrupt", "missing"}

\* tinyexr's LoadEXR: 0 for a valid EXR file, an error code otherwise.
LoadEXR(file) == IF file = "exr" THEN 0 ELSE 1

\* stb_image's stbi_loadf: data for a valid Radiance HDR file, NULL otherwise.
stbi_loadf(file) == file = "hdr"

load_image_exr(file) == IF LoadEXR(file) # 0 THEN 1 ELSE 0

load_image_hdr(file) == IF ~stbi_loadf(file) THEN 1 ELSE 0

\* static int usage(const std::string &name)  { ...; return 1; }
usage == 1

\* -------------------------------------------------------- partitioner ----
Region(x, y, w, h) == [x |-> x, y |-> y, w |-> w, h |-> h]

\* if (r._w < 2 || r._h < 2 || n == 0)
IsLeaf(r, n) == r.w < 2 \/ r.h < 2 \/ n = 0

\* if (r._w > r._h) r.split_w(A, B); else r.split_h(A, B);
SplitAxis_ties_w(r) == IF r.w >= r.h THEN "w" ELSE "h"
SplitAxis(r) == IF r.w > r.h THEN "w" ELSE "h"

\* if (A._h > 2 && A._w > 2)
Descend_ge(c) == c.h >= 2 /\ c.w >= 2
Descend(c) == c.h > 2 /\ c.w > 2

\* splitRecursive(A, n - 1, regions)
ChildBudget_same(n) == n
ChildBudget(n) == n - 1

\* SatRegion::split_w / split_h: the cut positions along the split axis;
\* both children keep at least one pixel.
CutPositions(r, axis) == IF axis = "w" THEN 1..(r.w - 1) ELSE 1..(r.h - 1)

\* SatRegion::split_w(A, B): A is the left part, B the right part.
split_w(r, c) == <<Region(r.x, r.y, c, r.h), Region(r.x + c, r.y, r.w - c, r.h)>>

\* SatRegion::split_h(A, B): A is the upper part, B the lower part.
split_h(r, c) == <<Region(r.x, r.y, r.w, c), Region(r.x, r.y + c, r.w, r.h - c)>>

Frame(r, n, d) == [r |-> r, n |-> n, d |-> d]

\* the recursive calls a splitting call makes, A before B
ChildCalls(AB, n, d) ==
  (IF Descend(AB[1]) THEN <<Frame(AB[1], ChildBudget(n), d + 1)>> ELSE <<>>)
  \o (IF Descend(AB[2]) THEN <<Frame(AB[2], ChildBudget(n), d + 1)>> ELSE <<>>)

\* medianVarianceCut: clear, create the whole-image region, first call
medianVarianceCut ==
  /\ pc = "cut"
  /\ regions' = <<>>
  /\ leafLog' = <<>>
  /\ lastSplit' = <<>>
  /\ stack' = <<Frame(Region(0, 0, sat.w, sat.h), numCuts, 0)>>
  /\ pc' = "split"
  /\ ran' = ran \cup {"cut"}
  /\ UNCHANGED <<mainVars, sat, lights, mainLights, jsonVars>>

\* splitRecursive, the call that cannot split: regions.push_back(r); return
splitRecursiveLeaf ==
  /\ pc = "split"
  /\ stack # <<>>
  /\ IsLeaf(Head(stack).r, Head(stack).n)
  /\ regions' = Append(regions, Head(stack).r)
  /\ leafLog' = Append(leafLog, [n |-> Head(stack).n, d |-> Head(stack).d])
  /\ stack' = Tail(stack)
  /\ pc' = IF stack' = <<>> THEN "cutDone" ELSE "split"
  /\ UNCHANGED <<mainVars, sat, lastSplit, lights, mainLights, jsonVars, ran>>

\* splitRecursive, the call that splits r into A and B and recurses
splitRecursiveSplit ==
  /\ pc = "split"
  /\ stack # <<>>
  /\ ~IsLeaf(Head(stack).r, Head(stack).n)
  /\ LET f == Head(stack)
         axis == SplitAxis(f.r)
     IN  \E c \in CutPositions(f.r, axis) :
           LET AB == IF axis = "w" THEN split_w(f.r, c) ELSE split_h(f.r, c)
           IN  /\ stack' = ChildCalls(AB, f.n, f.d) \o Tail(stack)
               /\ lastSplit' = <<[r |-> f.r, axis |-> axis,
                                  A |-> AB[1], B |-> AB[2]]>>
  /\ pc' = IF stack' = <<>> THEN "cutDone" ELSE "split"
  /\ UNCHANGED <<mainVars, sat, regions, leafLog, lights, mainLights,
                 jsonVars, ran>>

\* -------------------------------------------------------- outputJSON ----
\* rows a centroid can lie on: v = k / VDen for k in VSet
VSet == 0..VDen

\* if (y >= 0.5) continue;     (y = v / VDen)
Culled(v) == 2 * v >= VDen

\* size_t numLightsMax = numLights > 0 ? numLights : lights.size();
NumLightsMax_ge(m, ls) == IF m >= 0 THEN m ELSE Len(ls)
NumLightsMax(m, ls) == IF m > 0 THEN m ELSE Len(ls)

\* the value of i after the body of the loop: "continue" skips the i++
NextIndex_always(i, culled) == i + 1
NextIndex(i, culled) == IF culled THEN i ELSE i + 1

\* if (i < numLightsMax - 1)  -- only evaluated inside the loop, where
\* i < numLightsMax, so the unsigned subtraction cannot wrap
WantComma(i, max) == i < max - 1

Tok(t, k) == [t |-> t, k |-> k]

\* for (...; l != lights.end() && i < numLightsMax; ++l)
LoopCond == jl <= Len(mainLights) /\ ji < numLightsMax

\* outputJSON up to the loop: i = 0, numLightsMax, "["
outputJSONBegin ==
  /\ pc = "json"
  /\ ji' = 0
  /\ jl' = 1
  /\ numLightsMax' = NumLightsMax(numLights, mainLights)
  /\ out' = <<Tok("[", 0)>>
  /\ pc' = "jsonLoop"
  /\ ran' = ran \cup {"json"}
  /\ UNCHANGED <<mainVars, cutVars, lights, mainLights>>

\* one iteration on a light under the hemisphere: continue
outputJSONCull ==
  /\ pc = "jsonLoop"
  /\ LoopCond
  /\ Culled(mainLights[jl])
  /\ ji' = NextIndex(ji, TRUE)
  /\ jl' = jl + 1
  /\ UNCHANGED <<mainVars, cutVars, lights, mainLights, numLightsMax, out,
                 pc, ran>>

\* one iteration that writes the record of light l, then maybe a comma
outputJSONEmit ==
  /\ pc = "jsonLoop"
  /\ LoopCond
  /\ ~Culled(mainLights[jl])
  /\ out' = out \o <<Tok("rec", jl)>>
              \o (IF WantComma(ji, numLightsMax) THEN <<Tok(",", 0)>> ELSE <<>>)
  /\ ji' = NextIndex(ji, FALSE)
  /\ jl' = jl + 1
  /\ UNCHANGED <<mainVars, cutVars, lights, mainLights, numLightsMax, pc, ran>>

\* the loop ends: "]" and return
outputJSONEnd ==
  /\ pc = "jsonLoop"
  /\ ~LoopCond
  /\ out' = Append(out, Tok("]", 0))
  /\ pc' = "jsonDone"
  /\ UNCHANGED <<mainVars, cutVars, lights, mainLights, numLightsMax, ji, jl,
                 ran>>

\* --------------------------------------------------------------- main ----
\* while ((c = getopt(argc, argv, "a:dl:m:n:r:")) != -1) switch (c) ...
ParseOptions ==
  /\ pc = "getopt"
  /\ IF argv.badOpt
       THEN /\ exitCode' = usage
            /\ pc' = "exit"
            /\ UNCHANGED <<numCuts, numLights, debug>>
       ELSE /\ numCuts' = IF argv.n = <<>> THEN numCuts ELSE argv.n[1]
            /\ numLights' = IF argv.m = <<>> THEN numLights ELSE argv.m[1]
            /\ debug' = argv.d
            /\ pc' = "positional"
            /\ UNCHANGED exitCode
  /\ UNCHANGED <<argv, loader, loadRet, image, cutVars, lights, mainLights,
                 jsonVars, ran>>

\* if (optind < argc) { ... } else { return usage(argv[0]); }
CheckPositional ==
  /\ pc = "positional"
  /\ IF argv.file = "none"
       THEN exitCode' = usage /\ pc' = "exit"
       ELSE pc' = "load" /\ UNCHANGED exitCode
  /\ UNCHANGED <<argv, numCuts, numLights, debug, loader, loadRet, image,
                 cutVars, lights, mainLights, jsonVars, ran>>

\* if (load_image_exr(argv[optind], image) != 0) { ...; return 1; }
LoadImage ==
  /\ pc = "load"
  /\ loader' = "exr"
  /\ loadRet' = load_image_exr(argv.file)
  /\ ran' = ran \cup {"load"}
  /\ IF loadRet' # 0
       THEN exitCode' = 1 /\ pc' = "exit" /\ UNCHANGED image
       ELSE /\ \E w \in 1..MaxDim, h \in 1..MaxDim : image' = [w |-> w, h |-> h]
            /\ pc' = "sat"
            /\ UNCHANGED exitCode
  /\ UNCHANGED <<argv, numCuts, numLights, debug, cutVars, lights, mainLights,
                 jsonVars>>

\* lum_sat.createLum(rgba, width, height, nc);
CreateSat ==
  /\ pc = "sat"
  /\ sat' = image
  /\ pc' = "cut"
  /\ ran' = ran \cup {"sat"}
  /\ UNCHANGED <<mainVars, stack, regions, leafLog, lastSplit, lights,
                 mainLights, jsonVars>>

\* if (regions.empty()) { ...; return 1; }
CheckRegions_noreturn ==
  /\ pc = "cutDone"
  /\ pc' = "synth"
  /\ UNCHANGED <<mainVars, cutVars, lights, mainLights, jsonVars, ran>>

CheckRegions ==
  /\ pc = "cutDone"
  /\ IF regions = <<>>
       THEN exitCode' = 1 /\ pc' = "exit"
       ELSE pc' = "synth" /\ UNCHANGED exitCode
  /\ UNCHANGED <<argv, numCuts, numLights, debug, loader, loadRet, image,
                 cutVars, lights, mainLights, jsonVars, ran>>

\* createLightsFromRegions(...); std::sort(lights): one light per region
createLightsFromRegions ==
  /\ pc = "synth"
  /\ lights' = [k \in 1..Len(regions) |-> k]
  /\ pc' = "merge"
  /\ ran' = ran \cup {"synth"}
  /\ UNCHANGED <<mainVars, cutVars, mainLights, jsonVars>>

\* how many lights a merge of k candidates can leave: at least one (the
\* first candidate has no acceptor), at most k
MergedCounts(k) == IF k = 0 THEN {0} ELSE 1..k

\* mergeLights(lights, mainLights, ...); sort; reverse: the merged lights,
\* centroids anywhere in the image
mergeLights ==
  /\ pc = "merge"
  /\ \E k \in MergedCounts(Len(lights)) :
       \E ml \in [1..k -> VSet] : mainLights' = ml
  /\ pc' = "json"
  /\ ran' = ran \cup {"merge"}
  /\ UNCHANGED <<mainVars, cutVars, lights, jsonVars>>

\* if (debug) debugDrawLight(...);  return 0;
Finish ==
  /\ pc = "jsonDone"
  /\ ran' = IF debug THEN ran \cup {"debug"} ELSE ran
  /\ exitCode' = 0
  /\ pc' = "exit"
  /\ UNCHANGED <<argv, numCuts, numLights, debug, loader, loadRet, image,
                 cutVars, lights, mainLights, jsonVars>>

\* ----------------------------------------------------- specifications ----
Argv == [badOpt : BOOLEAN,
         file : Files \cup {"none"},
         n : {<<>>} \cup {<<k>> : k \in 0..MaxDepth},
         m : {<<>>} \cup {<<k>> : k \in (-1)..MaxNum},
         d : BOOLEAN]

NoArgs == [badOpt |-> FALSE, file |-> "exr", n |-> <<>>, m |-> <<>>, d |-> FALSE]

InitRest ==
  /\ debug = FALSE
  /\ exitCode = -1
  /\ loader = "none"
  /\ loadRet = -1
  /\ stack = <<>>
  /\ regions = <<>>
  /\ leafLog = <<>>
  /\ lastSplit = <<>>
  /\ lights = <<>>
  /\ numLightsMax = 0
  /\ ji = 0
  /\ jl = 1
  /\ out = <<>>
  /\ ran = {}

\* the process at the entry of main
Init ==
  /\ argv \in Argv
  /\ numCuts = DefaultNumCuts
  /\ numLights = DefaultNumLights
  /\ pc = "getopt"
  /\ image = NoImage
  /\ sat = NoImage
  /\ mainLights = <<>>
  /\ InitRest

Next ==
  \/ ParseOptions
  \/ CheckPositional
  \/ LoadImage
  \/ CreateSat
  \/ medianVarianceCut
  \/ splitRecursiveLeaf
  \/ splitRecursiveSplit
  \/ CheckRegions
  \/ createLightsFromRegions
  \/ mergeLights
  \/ outputJSONBegin
  \/ outputJSONCull
  \/ outputJSONEmit
  \/ outputJSONEnd
  \/ Finish

Spec == Init /\ [][Next]_vars

\* medianVarianceCut called on any image with any budget
InitCut ==
  /\ argv = NoArgs
  /\ numCuts \in 0..MaxDepth
  /\ numLights = DefaultNumLights
  /\ pc = "cut"
  /\ \E w \in 1..MaxDim, h \in 1..MaxDim : image = [w |-> w, h |-> h]
  /\ sat = image
  /\ mainLights = <<>>
  /\ InitRest

NextCut ==
  \/ medianVarianceCut
  \/ splitRecursiveLeaf
  \/ splitRecursiveSplit

SpecCut == InitCut /\ [][NextCut]_vars

\* the program is sequential: a call that can take a step takes it
FairCut == InitCut /\ [][NextCut]_vars /\ WF_vars(NextCut)

\* outputJSON called on any light list with any light count
InitJSON ==
  /\ argv = NoArgs
  /\ numCuts = DefaultNumCuts
  /\ numLights \in (-1)..MaxNum
  /\ pc = "json"
  /\ image = NoImage
  /\ sat = NoImage
  /\ mainLights \in SeqsUpTo(VSet, MaxLights)
  /\ InitRest

NextJSON ==
  \/ outputJSONBegin
  \/ outputJSONCull
  \/ outputJSONEmit
  \/ outputJSONEnd

SpecJSON == InitJSON /\ [][NextJSON]_vars

\* ============================================================ claims ====
\* ------------------------------------------------------- partitioner -----
InRegion(px, py, r) ==
  /\ r.x <= px /\ px < r.x + r.w
  /\ r.y <= py /\ py < r.y + r.h

Covering(px, py) == {k \in DOMAIN regions : InRegion(px, py, regions[k])}

\* C1: when medianVarianceCut returns, every pixel of the W x H image lies
\* in exactly one region of the output list (no gaps, no overlaps).
C1_ExactPartition ==
  pc = "cutDone" =>
    \A px \in 0..(sat.w - 1), py \in 0..(sat.h - 1) :
      Cardinality(Covering(px, py)) = 1

\* C2: a 4x4 image cut with depth budget 2 yields exactly 4 regions, each of
\* 2x2 pixels.
C2_FourQuadrants ==
  (pc = "cutDone" /\ sat.w = 4 /\ sat.h = 4 /\ numCuts = 2) =>
    /\ Len(regions) = 4
    /\ \A k \in DOMAIN regions : regions[k].w = 2 /\ regions[k].h = 2

\* what the code does on the input of C2, whatever the cut positions: at
\* most one region, and never a 2x2 one
C2_Observed ==
  (pc = "cutDone" /\ sat.w = 4 /\ sat.h = 4 /\ numCuts = 2) =>
    /\ Len(regions) <= 1
    /\ \A k \in DOMAIN regions : regions[k].w = 3 /\ regions[k].h = 3

\* the width of r was cut: A and B keep r's height and share its width
CutAlongWidth(s) ==
  /\ s.A.h = s.r.h /\ s.B.h = s.r.h
  /\ s.A.w + s.B.w = s.r.w
  /\ s.A.w < s.r.w /\ s.B.w < s.r.w

\* the height of r was cut: A and B keep r's width and share its height
CutAlongHeight(s) ==
  /\ s.A.w = s.r.w /\ s.B.w = s.r.w
  /\ s.A.h + s.B.h = s.r.h
  /\ s.A.h < s.r.h /\ s.B.h < s.r.h

\* C6 as stated: every split is along the longer of width and height, and a
\* square region is split along its width by split_w.
C6_TiesTowardWidth ==
  lastSplit # <<>> =>
    LET s == lastSplit[1]
    IN  /\ s.r.w >= s.r.h => s.axis = "w" /\ CutAlongWidth(s)
        /\ s.r.w < s.r.h => s.axis = "h" /\ CutAlongHeight(s)

\* C6 amended: every split is along the longer of width and height, and a
\* square region is split along its height by split_h.
C6_TiesTowardHeight ==
  lastSplit # <<>> =>
    LET s == lastSplit[1]
    IN  /\ s.r.w > s.r.h => s.axis = "w" /\ CutAlongWidth(s)
        /\ s.r.w <= s.r.h => s.axis = "h" /\ CutAlongHeight(s)

\* a square region has been split
C6_Witness == lastSplit # <<>> /\ lastSplit[1].r.w = lastSplit[1].r.h

C8_Bounded ==
  /\ Len(regions) <= Pow2(numCuts)
  /\ \A k \in DOMAIN stack : stack[k].d <= numCuts
  /\ \A k \in DOMAIN leafLog : leafLog[k].d <= numCuts

\* C8: medianVarianceCut terminates, it emits at most 2^n regions, and no
\* splitRecursive call is more than n levels below the whole-image call.
C8_TerminatesWithin2PowN == [](C8_Bounded) /\ <>(pc = "cutDone")

\* the cut returned with all 2^n leaves, n >= 2
C8_Witness == pc = "cutDone" /\ numCuts >= 2 /\ Len(regions) = Pow2(numCuts)

RecTokens == SelectSeq(out, LAMBDA t : t.t = "rec")
NRec == Len(RecTokens)
NComma == Len(SelectSeq(out, LAMBDA t : t.t = ","))

\* lights under the hemisphere (v >= 0.5) among those the loop has visited
CulledVisited == Cardinality({k \in 1..(jl - 1) : 2 * mainLights[k] >= VDen})

InOutputJSON == pc \in {"jsonLoop", "jsonDone"}

NoCulledRecord == \A k \in DOMAIN out :
                    out[k].t = "rec" => 2 * mainLights[out[k].k] < VDen

\* C4 as stated: a light with v >= 0.5 is not written but advances the
\* counter i, so records + culled lights visited never exceeds the maximum.
C4_CulledCounted ==
  InOutputJSON =>
    /\ NoCulledRecord
    /\ ji = NRec + CulledVisited
    /\ NRec + CulledVisited <= numLightsMax

\* C4 amended: a light with v >= 0.5 is not written and does not advance
\* the counter i; i is the number of records written, which never exceeds
\* the maximum.
C4_CulledNotCounted ==
  InOutputJSON =>
    /\ NoCulledRecord
    /\ ji = NRec
    /\ NRec <= numLightsMax

\* outputJSON returned after skipping a light and writing a record
C4_Witness == pc = "jsonDone" /\ CulledVisited >= 1 /\ NRec >= 1

\* the lights above the hemisphere, in list order
Visible == SelectSeq([k \in DOMAIN mainLights |-> k],
                     LAMBDA k : 2 * mainLights[k] < VDen)

\* C5: with m > 0 at most m records are written; with m <= 0 exactly one
\* record is written for each light with v < 0.5, in list order.
C5_CapOrAll ==
  pc = "jsonDone" =>
    /\ numLights > 0 => NRec <= numLights
    /\ numLights <= 0 => [k \in DOMAIN RecTokens |-> RecTokens[k].k] = Visible

\* the cap cut the list short
C5_Witness ==
  pc = "jsonDone" /\ numLights > 0 /\ NRec = numLights
  /\ Len(Visible) > numLights

\* C10: every comma is followed by another record, and when a record is
\* written there is one comma less than there are records.
C10_NoTrailingComma ==
  pc = "jsonDone" =>
    /\ \A k \in DOMAIN out :
         out[k].t = "," => k < Len(out) /\ out[k + 1].t = "rec"
    /\ NRec >= 1 => NComma = NRec - 1

\* -------------------------------------------------------------- main -----
UsageError == argv.badOpt \/ argv.file = "none"
LoadFailed == loader # "none" /\ loadRet # 0
EmptyPartition == "cut" \in ran /\ regions = <<>>

\* C3: the exit status is 1 exactly on a usage error, a load failure or an
\* empty partition and 0 otherwise, and a run that exits with 1 executed
\* no step after the failing one (no synthesis, merge or output).
C3_ExitStatus ==
  /\ pc # "exit" => exitCode = -1
  /\ pc = "exit" =>
       /\ exitCode \in {0, 1}
       /\ exitCode = 1 <=> (UsageError \/ LoadFailed \/ EmptyPartition)
       /\ exitCode = 1 => ran \cap {"synth", "merge", "json", "debug"} = {}
       /\ UsageError => ran = {}
       /\ LoadFailed => ran = {"load"}
       /\ exitCode = 0 => {"synth", "merge", "json"} \subseteq ran

\* the run stopped on an empty partition
C3_Witness == pc = "exit" /\ exitCode = 1 /\ EmptyPartition

\* C7: a valid HDR file is decoded by load_image_hdr and a valid EXR file
\* by load_image_exr, and either is loaded without a load error.
C7_DecoderByFormat ==
  (loader # "none" /\ argv.file \in {"hdr", "exr"}) =>
    /\ loader = argv.file
    /\ loadRet = 0
    /\ "load" \in ran /\ ~(pc = "exit" /\ exitCode = 1 /\ ran = {"load"})

====
